---------------------------- MODULE Spec2Model ----------------------------
(***************************************************************************)
(* A model of lode: the binder (InitHandles / toPtrSlice / bindPtrSlice /  *)
(* batchRanges), the per-key memoized Resolve with its sync.Once guard,    *)
(* the relation loaders Many and One, and Handle.Reset.                    *)
(*                                                                         *)
(* Model objects are numbered 1..NumModels; a *loaderState is its index in *)
(* the sequence `states` (allocation order), a *resolverEntry its index in *)
(* `entries`.  0 is the nil pointer of either kind.                        *)
(***************************************************************************)
EXTENDS Integers, Sequences, FiniteSets, TLC

\* ------------------------------------------------------------------ bounds
NumModels == 3
MaxLen == 3
MaxNamedLen == 2
MaxBatch == 2
MaxBinds == 2
NumProcs == 2
MaxCalls == 2
MaxConcBinds == 1
MaxFetch == 2
MaxResets == 1

\* NewEngine's default batch size
DefaultBatchSize == 5000

\* ------------------------------------------------------------- the universe
Nil == 0
NoState == 0
NotModel == -1

NoEntry == 0

Models == 1..NumModels
Refs == Models \cup {Nil}
Engines == {1, 2}
BatchSizes == 1..MaxBatch
\* WithBatchSize takes any int
AnyBatchSizes == (-MaxBatch)..MaxBatch
Procs == 1..NumProcs

\* cache keys; each names one relation definition (see ModelKey, RelationKey)
Keys == {"reports", "boss"}
\* join keys are model IDs; 0 is the ID of no model
JoinKeys == 0..NumModels
\* the Result type parameter of a Resolve call: a scalar, or []Relation
ResultTypes == {"str", "rels"}

VARIABLES
    config,     \* Engine.config: engine -> [batchSize]
    handle,     \* Handle.core of every model: model -> state index or NoState
    states,     \* every loaderState allocated so far, in allocation order
    entries,    \* every resolverEntry allocated so far: [once, ready]
    procs,      \* the goroutines calling Resolve / Many / One
    lastInit,   \* history: the latest InitHandles call
    hist        \* history: counters of calls, Builds, Fetches and Resets

vars == <<config, handle, states, entries, procs, lastInit, hist>>

\* ------------------------------------------------------------------ helpers
Min(a, b) == IF a < b THEN a ELSE b

\* reflect.Value.Slice(i, j) on a 0-based slice
Slice(s, i, j) == SubSeq(s, i + 1, j)

SeqsUpTo(S, n) == UNION {[1..k -> S] : k \in 0..n}

IsInjective(s) == \A i, j \in 1..Len(s) : s[i] = s[j] => i = j

\* el.Interface().(hasState): the element is a pointer to a type embedding Handle
hasState(el) == el \in Models

\* --------------------------------------------------------------- batchRanges
RECURSIVE batchLoop(_, _, _, _)
batchLoop(n, batchSize, i, out) ==
    IF i < n
    THEN LET j0 == i + batchSize
             j  == IF j0 > n THEN n ELSE j0
         IN  batchLoop(n, batchSize, i + batchSize,
                       Append(out, [StartInclusive |-> i, EndExclusive |-> j]))
    ELSE out

\* Go's integer division, which truncates toward zero
quot(a, b) ==
    LET abs(x) == IF x < 0 THEN -x ELSE x IN
    IF (a >= 0) = (b > 0) THEN abs(a) \div abs(b) ELSE -(abs(a) \div abs(b))

\* how a call of batchRanges ends.  The division computing nb panics for a
\* batch size of zero; make panics for a negative capacity nb; with a
\* negative step the loop's test i < n never fails while out grows by one
\* range per turn, so the call does not return
batchRangesEnd(n, batchSize) ==
    IF n = 0 THEN "returns"
    ELSE IF batchSize = 0 THEN "panics"
    ELSE IF quot(n + batchSize - 1, batchSize) < 0 THEN "panics"
    ELSE IF batchSize < 0 THEN "noReturn"
    ELSE "returns"

batchRangesOneLong(n, batchSize) ==
    IF n = 0 THEN <<>> ELSE <<[StartInclusive |-> 0, EndExclusive |-> n]>>

batchRanges(n, batchSize) ==
    IF n = 0 THEN <<>> ELSE batchLoop(n, batchSize, 0, <<>>)

\* ---------------------------------------------------------------- toPtrSlice
\* An input of InitHandles is its dynamic shape and the model objects it
\* holds.  Shapes:
\*   "ptrs"       []*T, or a pointer to one            (elements may be nil)
\*   "namedPtrs"  a named type over []*T, or a pointer to one
\*   "vals"       []T or a named type over it, or a pointer to one; elems are
\*                the storage slots of the backing array
\*   "single"     *T                                    (elems = <<m>>)
\*   "ptrptr"     **T                                   (elems = <<m>>)
\*   "nonModels"  a slice whose element type holds no Handle ([]int)
\*   "other"      nil, a scalar, a bare struct, an array, a map, a func, or a
\*                nil pointer to a slice
Shapes == {"ptrs", "namedPtrs", "vals", "single", "ptrptr", "nonModels", "other"}

Inputs ==
    [shape : {"ptrs"}, elems : SeqsUpTo(Refs, MaxLen)]
    \cup [shape : {"namedPtrs"}, elems : SeqsUpTo(Refs, MaxNamedLen)]
    \cup {[shape |-> "vals", elems |-> s] :
            s \in {t \in SeqsUpTo(Models, MaxNamedLen) : IsInjective(t)}}
    \cup [shape : {"single", "ptrptr"}, elems : [1..1 -> Refs]]
    \cup {[shape |-> "nonModels", elems |-> [i \in 1..k |-> NotModel]] : k \in 0..1}
    \cup {[shape |-> "other", elems |-> <<>>]}

NotOk == [ok |-> FALSE, ps |-> <<>>]

\* toPtrSlice taking references to copies of a []T's elements
\* toPtrSlice without the case of a single pointer to a model
toPtrSliceNoSingle(in) ==
    CASE in.shape \in {"ptrs", "namedPtrs", "vals", "nonModels"} ->
            [ok |-> TRUE, ps |-> in.elems]
      [] OTHER -> NotOk

toPtrSliceOfCopies(in) ==
    CASE in.shape = "single" ->
            IF in.elems[1] = Nil THEN NotOk ELSE [ok |-> TRUE, ps |-> in.elems]
      [] in.shape \in {"ptrs", "namedPtrs", "nonModels"} ->
            [ok |-> TRUE, ps |-> in.elems]
      [] in.shape = "vals" ->
            [ok |-> TRUE, ps |-> [i \in 1..Len(in.elems) |-> Nil]]
      [] OTHER -> NotOk

toPtrSlice(in) ==
    CASE in.shape = "single" ->
            \* a pointer implementing hasState: nil is refused, else []*T{v}
            IF in.elems[1] = Nil THEN NotOk ELSE [ok |-> TRUE, ps |-> in.elems]
      [] in.shape = "ptrptr" ->
            \* **T is no hasState; the unwrap loop dereferences every pointer
            \* level, ends on nil or on the struct T, and T is no slice
            NotOk
      [] in.shape = "ptrs" -> [ok |-> TRUE, ps |-> in.elems]
      [] in.shape = "namedPtrs" ->
            \* copied element by element into an unnamed []*T
            [ok |-> TRUE, ps |-> [i \in 1..Len(in.elems) |-> in.elems[i]]]
      [] in.shape = "vals" ->
            \* out[i] = &v[i]
            [ok |-> TRUE, ps |-> [i \in 1..Len(in.elems) |-> in.elems[i]]]
      [] in.shape = "nonModels" -> [ok |-> TRUE, ps |-> in.elems]
      [] OTHER -> NotOk

\* -------------------------------------------------------------- bindPtrSlice
\* the detection loop: TRUE iff a (re)bind is needed
RECURSIVE needLoop(_, _, _, _)
needLoop(h, ps, i, first) ==
    IF i >= Len(ps) THEN FALSE
    ELSE LET el == ps[i + 1] IN
         IF el = Nil \/ ~hasState(el) THEN needLoop(h, ps, i + 1, first)
         ELSE IF h[el] = NoState THEN TRUE
         ELSE IF first = NoState THEN needLoop(h, ps, i + 1, h[el])
         ELSE IF first # h[el] THEN TRUE
         ELSE needLoop(h, ps, i + 1, first)

needBindOnReorder(h, ps) ==
    \/ needLoop(h, ps, 0, NoState)
    \/ \E i, j \in 1..Len(ps) :
          i < j /\ hasState(ps[i]) /\ hasState(ps[j]) /\ ps[i] > ps[j]

needBindAlways(h, ps) == TRUE

needBindUnboundOnly(h, ps) ==
    \E i \in 1..Len(ps) : hasState(ps[i]) /\ h[ps[i]] = NoState

needBind(h, ps) == needLoop(h, ps, 0, NoState)

\* the inner loop: point every non-nil element of the chunk at the state
RECURSIVE setLoop(_, _, _, _)
setLoop(h, sub, i, state) ==
    IF i >= Len(sub) THEN h
    ELSE LET el == sub[i + 1] IN
         IF el = Nil \/ ~hasState(el) THEN setLoop(h, sub, i + 1, state)
         ELSE setLoop([h EXCEPT ![el] = state], sub, i + 1, state)

setFirstOnly(h, sub, i, state) ==
    IF Len(sub) = 0 \/ sub[1] = Nil \/ ~hasState(sub[1]) THEN h
    ELSE [h EXCEPT ![sub[1]] = state]

setChunk(h, sub, i, state) == setLoop(h, sub, i, state)

\* an empty sync.Map: no key has an entry
NoEntries == [k \in Keys |-> NoEntry]

\* a new loaderState: the batch's models, its engine, an empty sync.Map
newStateKeepingEntries(sub, e) ==
    [models |-> sub, engine |-> e,
     resolverEntries |->
        LET old == {i \in 1..Len(sub) : sub[i] # Nil /\ handle[sub[i]] # NoState}
        IN  IF old = {} THEN NoEntries
            ELSE states[handle[sub[CHOOSE i \in old : \A j \in old : i <= j]]]
                    .resolverEntries]

newStateDroppingLast(sub, e) ==
    [models |-> SubSeq(sub, 1, Len(sub) - 1), engine |-> e,
     resolverEntries |-> NoEntries]

newState(sub, e) ==
    [models |-> sub, engine |-> e, resolverEntries |-> NoEntries]

\* the outer loop over batchRanges: one new loaderState per range
RECURSIVE bindLoop(_, _, _, _, _, _)
bindLoop(h, sts, ps, ranges, r, e) ==
    IF r > Len(ranges) THEN [handle |-> h, states |-> sts, end |-> "returns"]
    ELSE LET br   == ranges[r]
             sub  == Slice(ps, br.StartInclusive, br.EndExclusive)
             sts2 == Append(sts, newState(sub, e))
         IN  bindLoop(setChunk(h, sub, 0, Len(sts2)), sts2, ps, ranges, r + 1, e)

\* batchRanges is evaluated before the loop over its ranges starts: a call of
\* it that does not return leaves every Handle as it was
bindPtrSlice(h, sts, ps, e) ==
    IF ~needBind(h, ps) THEN [handle |-> h, states |-> sts, end |-> "returns"]
    ELSE IF batchRangesEnd(Len(ps), config[e].batchSize) # "returns"
    THEN [handle |-> h, states |-> sts,
          end |-> batchRangesEnd(Len(ps), config[e].batchSize)]
    ELSE bindLoop(h, sts, ps, batchRanges(Len(ps), config[e].batchSize), 1, e)

\* InitHandles as a function of the heap: the handles and states after it
InitHandlesResult(h, sts, in, e) ==
    LET r == toPtrSlice(in) IN
    IF ~r.ok \/ Len(r.ps) = 0 THEN [handle |-> h, states |-> sts, end |-> "returns"]
    ELSE bindPtrSlice(h, sts, r.ps, e)

recordInit(in, e, after) ==
    [input  |-> in,
     engine |-> e,
     before |-> handle,
     base   |-> Len(states),
     made   |-> Len(after.states) - Len(states),
     n      |-> lastInit.n + 1,
     end    |-> after.end,
     prevInput  |-> lastInit.input,
     prevEngine |-> lastInit.engine,
     prevMade   |-> lastInit.made]

\* ------------------------------------------------------------------- values
NoErr == [code |-> "nil", id |-> 0]
errNoLoader == [code |-> "model not initialized with loader", id |-> 0]
errNotStored == [code |-> "internal error: resolver not stored", id |-> 0]
errTypeMismatch == [code |-> "key used with incompatible result type", id |-> 0]
\* not an error value: the run-time panic of calling a nil func, fn(model)
panicNilFunc == [code |-> "panic: call of nil func", id |-> 0]
\* the error values the caller's Build and Fetch return, told apart by call
BuildErr(cid) == [code |-> "build failed", id |-> cid]
FetchErr(cid) == [code |-> "fetch failed", id |-> cid]

\* a Go map from join key to []Relation: a missing key reads as the nil slice
NoGroups == [j \in JoinKeys |-> <<>>]

\* resolverHolder.resolver: nil, a caller's ResolverFunc (told apart by the
\* call that built it), or the closure Many builds over `grouped`
NilResolver == [kind |-> "nil", rtype |-> "", id |-> 0, grouped |-> NoGroups]
\* the nil a Build returns: `res` then holds a nil func of Build's own
\* ResolverFunc[Model, Result] type, not the nil interface
NilFn(rtype) == [kind |-> "nil", rtype |-> rtype, id |-> 0, grouped |-> NoGroups]
FnResolver(rtype, cid) ==
    [kind |-> "fn", rtype |-> rtype, id |-> cid, grouped |-> NoGroups]
GroupedResolver(cid, grouped) ==
    [kind |-> "grouped", rtype |-> "rels", id |-> cid, grouped |-> grouped]

\* atomic.Pointer[resolverHolder]: nil until built
NilHolder == [stored |-> FALSE, resolver |-> NilResolver, err |-> NoErr]
Holder(res, err) == [stored |-> TRUE, resolver |-> res, err |-> err]

newEntry == [once |-> "new", ready |-> NilHolder]

\* ------------------------------------------------- the callers' relation data
\* The relation each cache key names, over models that are employees with
\* ID m and manager boss(m):
\*   "reports": Many, ModelKey = own ID (always present), RelationKey = the
\*              child's manager
\*   "boss":    One, ModelKey = the manager's ID (absent for the root),
\*              RelationKey = the child's own ID
\* A ModelKey given a nil model reports "not present".
boss(m) == m \div 2

ModelKey(k, m) ==
    IF m = Nil THEN [key |-> 0, ok |-> FALSE]
    ELSE IF k = "reports" THEN [key |-> m, ok |-> TRUE]
    ELSE [key |-> boss(m), ok |-> boss(m) # 0]

RelationKey(k, c) == IF k = "reports" THEN boss(c) ELSE c

\* what a caller's own ResolverFunc, built by call cid, yields for model m
FnValue(cid, m) == <<cid, m>>

\* ------------------------------------------------------------- applyResolver
applyFn(res, k, m) ==
    IF res.kind = "fn" THEN FnValue(res.id, m)
    ELSE LET mk == ModelKey(k, m) IN
         IF mk.ok THEN res.grouped[mk.key] ELSE <<>>

applyResolverTypeFirst(h, rtype, k, m) ==
    IF ~h.stored THEN [val |-> <<>>, err |-> errNotStored]
    ELSE IF h.resolver.rtype # rtype THEN [val |-> <<>>, err |-> errTypeMismatch]
    ELSE IF h.err # NoErr THEN [val |-> <<>>, err |-> h.err]
    ELSE IF h.resolver.kind = "nil" THEN [val |-> <<>>, err |-> panicNilFunc]
    ELSE [val |-> applyFn(h.resolver, k, m), err |-> NoErr]

applyResolverIgnoringType(h, rtype, k, m) ==
    IF ~h.stored THEN [val |-> <<>>, err |-> errNotStored]
    ELSE IF h.err # NoErr THEN [val |-> <<>>, err |-> h.err]
    ELSE IF h.resolver.kind = "nil" THEN [val |-> <<>>, err |-> panicNilFunc]
    ELSE [val |-> applyFn(h.resolver, k, m), err |-> NoErr]

applyResolverOfFirst(h, rtype, k, m) ==
    IF ~h.stored THEN [val |-> <<>>, err |-> errNotStored]
    ELSE IF h.err # NoErr THEN [val |-> <<>>, err |-> h.err]
    ELSE IF h.resolver.rtype # rtype THEN [val |-> <<>>, err |-> errTypeMismatch]
    ELSE IF h.resolver.kind = "nil" THEN [val |-> <<>>, err |-> panicNilFunc]
    ELSE [val |-> applyFn(h.resolver, k, 1), err |-> NoErr]

\* a nil holder is the internal error; the holder's error comes first; the
\* type assertion fails for a resolver of another Result type, and succeeds
\* for a nil func of the caller's own type, whose call then panics
applyResolverNilIsNotStored(h, rtype, k, m) ==
    IF ~h.stored THEN [val |-> <<>>, err |-> errNotStored]
    ELSE IF h.err # NoErr THEN [val |-> <<>>, err |-> h.err]
    ELSE IF h.resolver.rtype # rtype THEN [val |-> <<>>, err |-> errTypeMismatch]
    ELSE IF h.resolver.kind = "nil" THEN [val |-> <<>>, err |-> errNotStored]
    ELSE [val |-> applyFn(h.resolver, k, m), err |-> NoErr]

applyResolver(h, rtype, k, m) ==
    IF ~h.stored THEN [val |-> <<>>, err |-> errNotStored]
    ELSE IF h.err # NoErr THEN [val |-> <<>>, err |-> h.err]
    ELSE IF h.resolver.rtype # rtype THEN [val |-> <<>>, err |-> errTypeMismatch]
    ELSE IF h.resolver.kind = "nil" THEN [val |-> <<>>, err |-> panicNilFunc]
    ELSE [val |-> applyFn(h.resolver, k, m), err |-> NoErr]

\* ------------------------------------------------------------ Many's queryFunc
\* the set the first loop collects in modelKeySet
modelKeySet(k, models) ==
    {ModelKey(k, models[i]).key :
        i \in {j \in 1..Len(models) : ModelKey(k, models[j]).ok}}

\* the slices the second loop can produce: Go ranges over a map in any order
Orderings(S) ==
    {s \in [1..Cardinality(S) -> S] : \A i, j \in 1..Cardinality(S) : s[i] = s[j] => i = j}

RECURSIVE keysInBatchOrder(_, _, _)
keysInBatchOrder(k, models, i) ==
    IF i > Len(models) THEN <<>>
    ELSE IF ModelKey(k, models[i]).ok
         THEN <<ModelKey(k, models[i]).key>> \o keysInBatchOrder(k, models, i + 1)
         ELSE keysInBatchOrder(k, models, i + 1)

modelKeysNoDedup(k, models) == {keysInBatchOrder(k, models, 1)}

modelKeys(k, models) == Orderings(modelKeySet(k, models))

\* the grouping loop: grouped[RelationKey(r)] = append(grouped[...], r)
RECURSIVE groupLoop(_, _, _, _)
groupLoop(k, relations, i, grouped) ==
    IF i > Len(relations) THEN grouped
    ELSE groupLoop(k, relations, i + 1,
                   [grouped EXCEPT ![RelationKey(k, relations[i])] =
                                       Append(@, relations[i])])

RECURSIVE groupLoopPrepend(_, _, _, _)
groupLoopPrepend(k, relations, i, grouped) ==
    IF i > Len(relations) THEN grouped
    ELSE groupLoopPrepend(k, relations, i + 1,
                   [grouped EXCEPT ![RelationKey(k, relations[i])] =
                                       <<relations[i]>> \o @])

groupRelationsReversed(k, relations) == groupLoopPrepend(k, relations, 1, NoGroups)

groupRelations(k, relations) == groupLoop(k, relations, 1, NoGroups)

\* what Fetch can return: an error, or up to MaxFetch distinct children in
\* some order
FetchResults ==
    {[ok |-> FALSE, rels |-> <<>>]}
    \cup {[ok |-> TRUE, rels |-> s] :
            s \in {t \in SeqsUpTo(Models, MaxFetch) : IsInjective(t)}}

\* what a caller's Build can return: (fn, nil), (nil, err) or (nil, nil)
BuildOutcomes == {"fn", "err", "nil"}

\* ------------------------------------------------------------ Many, One: ends
NoRet == [val |-> <<>>, one |-> Nil, err |-> NoErr]

\* Many: (nil, err) on an error, else Resolve's result
ManyReturnDropsError(r) == [val |-> r.val, err |-> NoErr]

ManyReturn(r) == IF r.err # NoErr THEN [val |-> <<>>, err |-> r.err] ELSE r

\* One: Many's error with the zero Relation, else the first relation or zero
OneReturnLast(r) ==
    IF r.err # NoErr THEN [one |-> Nil, err |-> r.err]
    ELSE IF Len(r.val) = 0 THEN [one |-> Nil, err |-> NoErr]
    ELSE [one |-> r.val[Len(r.val)], err |-> NoErr]

OneReturn(r) ==
    IF r.err # NoErr THEN [one |-> Nil, err |-> r.err]
    ELSE IF Len(r.val) = 0 THEN [one |-> Nil, err |-> NoErr]
    ELSE [one |-> r.val[1], err |-> NoErr]

\* what the call of kind `kind` hands back, given what Resolve returned
callReturn(kind, r) ==
    CASE kind = "Resolve" -> [val |-> r.val, one |-> Nil, err |-> r.err]
      [] kind = "Many"    -> [val |-> ManyReturn(r).val, one |-> Nil,
                              err |-> ManyReturn(r).err]
      [] OTHER            -> [val |-> <<>>, one |-> OneReturn(ManyReturn(r)).one,
                              err |-> OneReturn(ManyReturn(r)).err]

\* ------------------------------------------------------------------ goroutines
\* a call's locals; how, ret and gen are history: the way it was served, what
\* it returned, and how many Resets its loader had seen when it entered;
\* cancelled is the state of the context the caller passed
IdleProc ==
    [pc |-> "idle", kind |-> "Resolve", model |-> Nil, key |-> "reports",
     rtype |-> "str", loader |-> NoState, pm |-> NoEntry, cid |-> 0,
     how |-> "none", batch |-> <<>>, keys |-> <<>>, ret |-> NoRet, gen |-> 0,
     cancelled |-> FALSE]

\* the history counters, one row per allocated state
ZeroRow == [k \in Keys |-> 0]
NoneRow == [k \in Keys |-> <<>>]
Pad(rows, n, zero) == [i \in 1..n |-> IF i <= Len(rows) THEN rows[i] ELSE zero]
padHist(h, n) ==
    [h EXCEPT !.builds = Pad(@, n, ZeroRow),
              !.fetches = Pad(@, n, ZeroRow),
              !.plain = Pad(@, n, ZeroRow),
              !.fetched = Pad(@, n, NoneRow),
              !.resetsOn = Pad(@, n, 0)]

\* ------------------------------------------------------------------- actions
Init ==
    /\ \E b \in BatchSizes :
          config = [e \in Engines |->
                      [batchSize |-> IF e = 1 THEN b ELSE DefaultBatchSize]]
    /\ handle = [m \in Models |-> NoState]
    /\ states = <<>>
    /\ entries = <<>>
    /\ procs = [p \in Procs |-> IdleProc]
    /\ lastInit = [input |-> [shape |-> "other", elems |-> <<>>], engine |-> 1,
                   before |-> [m \in Models |-> NoState],
                   base |-> 0, made |-> 0, n |-> 0, end |-> "returns",
                   prevInput |-> [shape |-> "other", elems |-> <<>>],
                   prevEngine |-> 1, prevMade |-> 0]
    /\ hist = [calls |-> 0, binds |-> 0, resets |-> 0, builds |-> <<>>,
               fetches |-> <<>>, plain |-> <<>>, fetched |-> <<>>,
               resetsOn |-> <<>>]

\* Engine.InitHandles, called by the program on models it loaded
InitHandles(e, in) ==
    /\ hist.binds < MaxBinds
    /\ LET after == InitHandlesResult(handle, states, in, e) IN
       /\ handle' = after.handle
       /\ states' = after.states
       /\ lastInit' = recordInit(in, e, after)
       /\ hist' = [padHist(hist, Len(after.states)) EXCEPT !.binds = @ + 1]
    /\ UNCHANGED <<config, entries, procs>>

NextBind == \E e \in Engines, in \in Inputs : InitHandles(e, in)

SpecBind == Init /\ [][NextBind]_vars

\* the same program with any batch size WithBatchSize accepts for one engine
InitAnyBatch ==
    /\ \E b \in AnyBatchSizes :
          config = [e \in Engines |->
                      [batchSize |-> IF e = 1 THEN b ELSE DefaultBatchSize]]
    /\ handle = [m \in Models |-> NoState]
    /\ states = <<>>
    /\ entries = <<>>
    /\ procs = [p \in Procs |-> IdleProc]
    /\ lastInit = [input |-> [shape |-> "other", elems |-> <<>>], engine |-> 1,
                   before |-> [m \in Models |-> NoState],
                   base |-> 0, made |-> 0, n |-> 0, end |-> "returns",
                   prevInput |-> [shape |-> "other", elems |-> <<>>],
                   prevEngine |-> 1, prevMade |-> 0]
    /\ hist = [calls |-> 0, binds |-> 0, resets |-> 0, builds |-> <<>>,
               fetches |-> <<>>, plain |-> <<>>, fetched |-> <<>>,
               resetsOn |-> <<>>]

SpecAnyBatch == InitAnyBatch /\ [][NextBind]_vars

\* the inputs the program binds while goroutines resolve
IsIncreasing(s) == \A i, j \in 1..Len(s) : i < j => s[i] < s[j]

ConcInputs ==
    {[shape |-> "ptrs", elems |-> s] :
        s \in {t \in SeqsUpTo(Models, NumModels) : Len(t) >= 2 /\ IsIncreasing(t)}}

\* no Resolve, Many or One call is in flight
Quiescent == \A p \in Procs : procs[p].pc \in {"idle", "done"}

\* InitHandles between calls: the program finishes binding models before it
\* resolves on them
InitHandlesQuiet(e, in) ==
    Quiescent /\ hist.binds < MaxConcBinds /\ InitHandles(e, in)

\* the batch Resolve hands to Build: loader.models, asserted to be []Model
\* (callers are models of the batch's element type, so the assertion holds)
buildBatchOnlyRequester(models, m) == <<m>>

buildBatch(models, m) == models

\* sync.Map.LoadOrStore(key, &resolverEntry{}) on state s
loadOrStoreEvicting(sts, ents, s, k) ==
    IF sts[s].resolverEntries[k] # NoEntry
    THEN [states |-> sts, entries |-> ents, pm |-> sts[s].resolverEntries[k]]
    ELSE [states |-> [sts EXCEPT ![s].resolverEntries =
                         [NoEntries EXCEPT ![k] = Len(ents) + 1]],
          entries |-> Append(ents, newEntry),
          pm |-> Len(ents) + 1]

loadOrStoreNewWhenUnbuilt(sts, ents, s, k) ==
    IF sts[s].resolverEntries[k] # NoEntry /\ ents[sts[s].resolverEntries[k]].ready.stored
    THEN [states |-> sts, entries |-> ents, pm |-> sts[s].resolverEntries[k]]
    ELSE [states |-> [sts EXCEPT ![s].resolverEntries[k] = Len(ents) + 1],
          entries |-> Append(ents, newEntry),
          pm |-> Len(ents) + 1]

loadOrStoreAlwaysNew(sts, ents, s, k) ==
    [states |-> [sts EXCEPT ![s].resolverEntries[k] = Len(ents) + 1],
     entries |-> Append(ents, newEntry),
     pm |-> Len(ents) + 1]

loadOrStore(sts, ents, s, k) ==
    IF sts[s].resolverEntries[k] # NoEntry
    THEN [states |-> sts, entries |-> ents, pm |-> sts[s].resolverEntries[k]]
    ELSE [states |-> [sts EXCEPT ![s].resolverEntries[k] = Len(ents) + 1],
          entries |-> Append(ents, newEntry),
          pm |-> Len(ents) + 1]

\* sync.Once.Do runs its function for the first caller only
onceDoRunsOneAtATime(ent) ==
    ent.once = "new" /\ \A e \in 1..Len(entries) : entries[e].once # "running"

onceDoRunsUntilDone(ent) == ent.once # "done"

onceDoRunsWhenUnpublished(ent) == ~ent.ready.stored

onceDoRunsAlways(ent) == TRUE

onceDoRuns(ent) == ent.once = "new"

\* a call has returned: its locals are dead, its result is kept; a call that
\* panicked has not returned, and its goroutine takes no further call
returned(pr, how, r) ==
    [pr EXCEPT !.pc = IF r.err = panicNilFunc THEN "panicked" ELSE "done",
               !.how = how, !.batch = <<>>, !.keys = <<>>,
               !.ret = callReturn(pr.kind, r)]

\* isNil(spec.Model)
isNil(m) == m = Nil

\* the checks on entry, in the code's order: a nil model and (Many, One) a
\* ModelKey that is not present give the zero result; then a nil loader
\* gives errNoLoader; else the call goes on to LoadOrStore
entryCheckNilIsUnbound(kind, k, m, h) ==
    IF isNil(m) THEN "noLoader"
    ELSE IF kind # "Resolve" /\ ~ModelKey(k, m).ok THEN "zero"
    ELSE IF h[m] = NoState THEN "noLoader"
    ELSE "load"

entryCheckUnboundIsZero(kind, k, m, h) ==
    IF isNil(m) THEN "zero"
    ELSE IF kind # "Resolve" /\ ~ModelKey(k, m).ok THEN "zero"
    ELSE IF h[m] = NoState THEN "zero"
    ELSE "load"

entryCheckLoaderFirst(kind, k, m, h) ==
    IF isNil(m) THEN "zero"
    ELSE IF h[m] = NoState THEN "noLoader"
    ELSE IF kind # "Resolve" /\ ~ModelKey(k, m).ok THEN "zero"
    ELSE "load"

entryCheck(kind, k, m, h) ==
    IF isNil(m) THEN "zero"
    ELSE IF kind # "Resolve" /\ ~ModelKey(k, m).ok THEN "zero"
    ELSE IF h[m] = NoState THEN "noLoader"
    ELSE "load"

\* Resolve / Many / One are entered: the nil and "not present" short-circuits,
\* the read of the Handle, and LoadOrStore
Call(p, kind, m, k, rt) ==
    /\ procs[p].pc \in {"idle", "done"}
    /\ hist.calls < MaxCalls
    /\ kind = "Resolve" \/ rt = "rels"
    /\ LET cid == hist.calls + 1
           pr  == [IdleProc EXCEPT !.kind = kind, !.model = m, !.key = k,
                                   !.rtype = rt, !.cid = cid]
       IN
       IF entryCheck(kind, k, m, handle) = "zero"
       THEN /\ procs' = [procs EXCEPT ![p] =
                           returned(pr, "none", [val |-> <<>>, err |-> NoErr])]
            /\ hist' = [hist EXCEPT !.calls = cid]
            /\ UNCHANGED <<states, entries>>
       ELSE IF entryCheck(kind, k, m, handle) = "noLoader"
       THEN /\ procs' = [procs EXCEPT ![p] =
                           returned(pr, "none", [val |-> <<>>, err |-> errNoLoader])]
            /\ hist' = [hist EXCEPT !.calls = cid]
            /\ UNCHANGED <<states, entries>>
       ELSE LET ls == loadOrStore(states, entries, handle[m], k) IN
            /\ states' = ls.states
            /\ entries' = ls.entries
            /\ procs' = [procs EXCEPT ![p] =
                           [pr EXCEPT !.pc = "check", !.loader = handle[m],
                                      !.pm = ls.pm,
                                      !.gen = hist.resetsOn[handle[m]]]]
            /\ hist' = [hist EXCEPT !.calls = cid,
                                    !.plain[handle[m]][k] =
                                        IF kind = "Resolve" THEN 1 ELSE @]
    /\ UNCHANGED <<config, handle, lastInit>>

\* pm.ready.Load() before the Once: a published holder is applied at once
ReadyLoad(p) ==
    /\ procs[p].pc = "check"
    /\ LET pr == procs[p]
           h  == entries[pr.pm].ready
       IN  procs' = [procs EXCEPT ![p] =
              IF h.stored
              THEN returned(pr, "hit", applyResolver(h, pr.rtype, pr.key, pr.model))
              ELSE [pr EXCEPT !.pc = "once"]]
    /\ UNCHANGED <<config, handle, states, entries, lastInit, hist>>

\* pm.once.Do: the first caller of the entry runs the function.  Build is
\* entered with the batch; Many's queryFunc collects the keys and calls Fetch
OnceDo(p) ==
    /\ procs[p].pc = "once"
    /\ onceDoRuns(entries[procs[p].pm])
    /\ LET pr    == procs[p]
           batch == buildBatch(states[pr.loader].models, pr.model)
       IN
       /\ entries' = [entries EXCEPT ![pr.pm].once = "running"]
       /\ IF pr.kind = "Resolve"
          THEN /\ procs' = [procs EXCEPT ![p] =
                              [pr EXCEPT !.pc = "build", !.batch = batch]]
               /\ hist' = [hist EXCEPT !.builds[pr.loader][pr.key] = @ + 1]
          ELSE \E ks \in modelKeys(pr.key, batch) :
               /\ procs' = [procs EXCEPT ![p] =
                              [pr EXCEPT !.pc = "build", !.batch = batch,
                                         !.keys = ks]]
               /\ hist' = [hist EXCEPT !.builds[pr.loader][pr.key] = @ + 1,
                                       !.fetches[pr.loader][pr.key] = @ + 1]
    /\ UNCHANGED <<config, handle, states, lastInit>>

\* the caller's Build returns; pm.ready.Store(&resolverHolder{res, err})
BuildReturn(p, out) ==
    /\ procs[p].pc = "build"
    /\ procs[p].kind = "Resolve"
    /\ LET pr == procs[p]
           h  == CASE out = "fn"  -> Holder(FnResolver(pr.rtype, pr.cid), NoErr)
                   [] out = "err" -> Holder(NilFn(pr.rtype), BuildErr(pr.cid))
                   [] OTHER       -> Holder(NilFn(pr.rtype), NoErr)
       IN  /\ entries' = [entries EXCEPT ![pr.pm].ready = h]
           /\ procs' = [procs EXCEPT ![p].pc = "stored"]
    /\ UNCHANGED <<config, handle, states, lastInit, hist>>

\* loader.engine, the engine whose InitHandles binds the fetched relations
loaderEngineDefault(sts, s) == 2

loaderEngine(sts, s) == sts[s].engine

\* Fetch returns inside Many's queryFunc: its error is handed on; else the
\* children are bound by the state's engine and grouped, and the holder stored
FetchReturn(p, res) ==
    /\ procs[p].pc = "build"
    /\ procs[p].kind # "Resolve"
    /\ LET pr == procs[p] IN
       IF ~res.ok
       THEN /\ entries' = [entries EXCEPT ![pr.pm].ready =
                              Holder(NilFn(pr.rtype), FetchErr(pr.cid))]
            /\ UNCHANGED <<handle, states, lastInit, hist>>
       ELSE LET in    == [shape |-> "ptrs", elems |-> res.rels]
                e     == loaderEngine(states, pr.loader)
                after == InitHandlesResult(handle, states, in, e)
            IN  /\ handle' = after.handle
                /\ states' = after.states
                /\ lastInit' = recordInit(in, e, after)
                /\ hist' = [padHist(hist, Len(after.states)) EXCEPT
                                !.fetched[pr.loader][pr.key] = res.rels]
                /\ entries' = [entries EXCEPT ![pr.pm].ready =
                      Holder(GroupedResolver(pr.cid, groupRelations(pr.key, res.rels)),
                             NoErr)]
    /\ procs' = [procs EXCEPT ![p].pc = "stored"]
    /\ UNCHANGED config

\* the Once's function has returned: the Once is done, and the runner applies
\* pm.ready.Load()
OnceExit(p) ==
    /\ procs[p].pc = "stored"
    /\ LET pr == procs[p] IN
       /\ entries' = [entries EXCEPT ![pr.pm].once = "done"]
       /\ procs' = [procs EXCEPT ![p] =
             returned(pr, "built",
                      applyResolver(entries[pr.pm].ready, pr.rtype, pr.key, pr.model))]
    /\ UNCHANGED <<config, handle, states, lastInit, hist>>

\* the caller's context is cancelled while it waits in pm.once.Do for another
\* caller's function (anywhere else Resolve only hands ctx on to Build, all
\* of whose outcomes are allowed already)
Cancel(p) ==
    /\ procs[p].pc = "once"
    /\ entries[procs[p].pm].once = "running"
    /\ ~procs[p].cancelled
    /\ procs' = [procs EXCEPT ![p].cancelled = TRUE]
    /\ UNCHANGED <<config, handle, states, entries, lastInit, hist>>

\* when pm.once.Do returns for a caller that does not run the function: once
\* the Once is done, whatever the caller's context
onceDoReturnsOnCancel(ent, cancelled) == ent.once = "done" \/ cancelled

onceDoReturns(ent, cancelled) == ent.once = "done"

\* pm.once.Do for every other caller: it returns only once the Once is done
\* (it blocks while the function runs), then the caller applies pm.ready.Load()
OnceWait(p) ==
    /\ procs[p].pc = "once"
    /\ onceDoReturns(entries[procs[p].pm], procs[p].cancelled)
    /\ LET pr == procs[p] IN
       procs' = [procs EXCEPT ![p] =
             returned(pr, "waited",
                      applyResolver(entries[pr.pm].ready, pr.rtype, pr.key, pr.model))]
    /\ UNCHANGED <<config, handle, states, entries, lastInit, hist>>

\* sync.Map.Clear
clearEntriesOneKey(re) == [re EXCEPT !["boss"] = NoEntry]

clearEntriesKeepsAll(re) == re

clearEntries(re) == NoEntries

\* the states after Handle.Reset on model m: a nil core returns at once;
\* else resolverEntries.Clear() on the state the Handle points to
resetStatesAllocating(sts, h, m) ==
    IF h[m] = NoState THEN Append(sts, newState(<<m>>, 1))
    ELSE [sts EXCEPT ![h[m]].resolverEntries = clearEntries(@)]

resetStates(sts, h, m) ==
    IF h[m] = NoState THEN sts
    ELSE [sts EXCEPT ![h[m]].resolverEntries = clearEntries(@)]

\* Handle.Reset on model m
Reset(m) ==
    /\ hist.resets < MaxResets
    /\ states' = resetStates(states, handle, m)
    /\ hist' = [hist EXCEPT !.resets = @ + 1,
                            !.resetsOn = IF handle[m] = NoState THEN @
                                         ELSE [@ EXCEPT ![handle[m]] = @ + 1]]
    /\ UNCHANGED <<config, handle, entries, procs, lastInit>>

\* goroutines are interchangeable: a new call takes the first free one
FreeProcs ==
    {p \in Procs : /\ procs[p].pc \in {"idle", "done"}
                   /\ \A q \in Procs : q < p => procs[q].pc \notin {"idle", "done"}}

\* models sharing a state share its Reset: one model of each state calls it
ResetCallers == {m \in Models : \A q \in Models : q < m => handle[q] # handle[m]}

\* the program's steps around plain Resolve calls
NextResolve ==
    \/ \E in \in ConcInputs : InitHandlesQuiet(1, in)
    \/ \E p \in FreeProcs, m \in Refs, k \in Keys, rt \in ResultTypes :
          Call(p, "Resolve", m, k, rt)
    \/ \E p \in Procs : ReadyLoad(p)
    \/ \E p \in Procs : OnceDo(p)
    \/ \E p \in Procs, out \in BuildOutcomes : BuildReturn(p, out)
    \/ \E p \in Procs : OnceExit(p)
    \/ \E p \in Procs : OnceWait(p)
    \/ \E p \in Procs : Cancel(p)
    \/ \E m \in ResetCallers : Reset(m)

SpecResolve == Init /\ [][NextResolve]_vars

\* calls made one after another: the i-th call runs on goroutine i
NextCaller == {p \in Procs : p = hist.calls + 1}

\* the program's steps around Many and One calls made one after another
NextMany ==
    \/ \E e \in Engines, in \in ConcInputs : InitHandlesQuiet(e, in)
    \/ \E p \in NextCaller, kind \in {"Many", "One"}, m \in Refs, k \in Keys :
          Quiescent /\ Call(p, kind, m, k, "rels")
    \/ \E p \in Procs : ReadyLoad(p)
    \/ \E p \in Procs : OnceDo(p)
    \/ \E p \in Procs, res \in FetchResults : FetchReturn(p, res)
    \/ \E p \in Procs : OnceExit(p)

SpecMany == Init /\ [][NextMany]_vars

\* what Fetch returns while calls run concurrently: an error, no child, or
\* one child
ConcFetchResults == {r \in FetchResults : Len(r.rels) <= 1}

\* the next step of call goroutine p, whichever it is: the scheduler runs a
\* goroutine that can step, and a Build or Fetch that was entered returns
CallStep(p) ==
    \/ ReadyLoad(p)
    \/ OnceDo(p)
    \/ \E out \in BuildOutcomes : BuildReturn(p, out)
    \/ \E res \in ConcFetchResults : FetchReturn(p, res)
    \/ OnceExit(p)
    \/ OnceWait(p)

\* Resolve, Many and One calls running concurrently with each other, with
\* Reset and with cancellation
NextCalls ==
    \/ NextResolve
    \/ \E p \in FreeProcs, kind \in {"Many", "One"}, m \in Refs, k \in Keys :
          Call(p, kind, m, k, "rels")
    \/ \E p \in Procs, res \in ConcFetchResults : FetchReturn(p, res)

SpecCallsFair ==
    Init /\ [][NextCalls]_vars /\ \A p \in Procs : WF_vars(CallStep(p))

\* ===================================================== claims on the binder
\* the partition (0-based) that position p (1-based) of the input falls in
ChunkOf(p, B) == (p - 1) \div B

LastB == config[lastInit.engine].batchSize
LastElems == lastInit.input.elems
LastIsSeq == lastInit.input.shape \in {"ptrs", "namedPtrs", "vals"}

\* C8: a second InitHandles with the same input, after a first call that
\* bound it, changes no Handle and allocates no state (so no cache is lost).
C8_SecondCallNoOp ==
    (/\ lastInit.n >= 2
     /\ lastInit.input = lastInit.prevInput
     /\ lastInit.engine = lastInit.prevEngine
     /\ lastInit.prevMade > 0)
    => (handle = lastInit.before /\ lastInit.made = 0)

\* C9: binding M unbound models with batch size B makes ceil(M/B) states, the
\* i-th holding the input slice [i*B, min((i+1)*B, M)).
C9_Pre ==
    /\ lastInit.n > 0
    /\ LastIsSeq
    /\ \A i \in 1..Len(LastElems) :
          LastElems[i] \in Models /\ lastInit.before[LastElems[i]] = NoState

C9_ContiguousChunks ==
    C9_Pre =>
      LET M == Len(LastElems)
          B == LastB
      IN  /\ lastInit.made = (M + B - 1) \div B
          /\ Len(states) = lastInit.base + lastInit.made
          /\ \A i \in 0..(lastInit.made - 1) :
                /\ states[lastInit.base + i + 1].models
                      = SubSeq(LastElems, i * B + 1, Min((i + 1) * B, M))
                /\ Len(states[lastInit.base + i + 1].models) <= B
                /\ states[lastInit.base + i + 1].engine = lastInit.engine

C9_Witness ==
    /\ C9_Pre
    /\ Len(LastElems) = 3
    /\ LastB = 2
    /\ lastInit.made = 2

\* C10 as stated: after a call that binds, every model of a partition
\* references that partition's state, whatever the input (repeats included).
C10_PartitionShares ==
    (lastInit.made > 0) =>
      \A p \in 1..Len(LastElems) :
         LastElems[p] \in Models =>
            handle[LastElems[p]] = lastInit.base + ChunkOf(p, LastB) + 1

\* C10 amended: the same, for inputs in which no model reference occurs in two
\* different partitions (repeats inside one partition are allowed).
C10_NoCrossRepeat ==
    \A p, q \in 1..Len(LastElems) :
       (LastElems[p] = LastElems[q] /\ LastElems[p] \in Models)
          => ChunkOf(p, LastB) = ChunkOf(q, LastB)

C10_PartitionSharesAmended ==
    (lastInit.made > 0 /\ C10_NoCrossRepeat) =>
      \A p \in 1..Len(LastElems) :
         LastElems[p] \in Models =>
            handle[LastElems[p]] = lastInit.base + ChunkOf(p, LastB) + 1

C10_Witness ==
    /\ lastInit.made = 2
    /\ C10_NoCrossRepeat
    /\ \E p, q \in 1..Len(LastElems) :
          p # q /\ LastElems[p] = LastElems[q] /\ LastElems[p] \in Models
    /\ \E p, q \in 1..Len(LastElems) :
          /\ LastElems[p] \in Models /\ LastElems[q] \in Models
          /\ handle[LastElems[p]] # handle[LastElems[q]]


\* ==================================================== claims on Resolve
\* the calls that got past the short-circuits to the entry of (s, k)
CallsOn(s, k) ==
    {p \in Procs : procs[p].pc # "idle" /\ procs[p].loader = s /\ procs[p].key = k}

ResolveDone(p) ==
    procs[p].pc = "done" /\ procs[p].kind = "Resolve" /\ procs[p].loader # NoState

Published(p) == entries[procs[p].pm].ready

\* C1: with no Reset on state s, Build runs at most once for (s, k), and
\* exactly once as soon as one Resolve call for k on s has returned.
C1_BuildOnce ==
    \A s \in 1..Len(states), k \in Keys :
       hist.resetsOn[s] = 0 =>
          /\ hist.builds[s][k] <= 1
          /\ (\E p \in CallsOn(s, k) : procs[p].pc = "done") => hist.builds[s][k] = 1

C1_Witness ==
    \E p, q \in Procs :
       /\ ResolveDone(p) /\ ResolveDone(q)
       /\ procs[p].loader = procs[q].loader /\ procs[p].key = procs[q].key
       /\ procs[p].model # procs[q].model
       /\ procs[p].how = "built" /\ procs[q].how = "waited"
       /\ hist.resetsOn[procs[p].loader] = 0
       /\ hist.builds[procs[p].loader][procs[p].key] = 1

\* the callers of one (state, key) share one entry, whose published outcome
\* each of them got
C2_OnePublished(p) ==
    /\ Published(p).stored
    /\ \A q \in Procs :
          (ResolveDone(q) /\ procs[q].loader = procs[p].loader
                          /\ procs[q].key = procs[p].key)
             => procs[q].pm = procs[p].pm
    /\ Published(p).err # NoErr =>
          (procs[p].ret.err = Published(p).err /\ procs[p].ret.val = <<>>)

\* C2 as stated: with no Reset, every Resolve caller of (s, k) gets the one
\* published outcome: f(m) and no error if it is a resolver f, the same
\* error if it is an error.
C2_SameOutcome ==
    \A p \in Procs :
       (ResolveDone(p) /\ hist.resetsOn[procs[p].loader] = 0) =>
          /\ C2_OnePublished(p)
          /\ Published(p).resolver.kind = "fn" =>
                /\ procs[p].ret.err = NoErr
                /\ procs[p].ret.val = FnValue(Published(p).resolver.id, procs[p].model)

\* C2 amended: the same, where f(m) is what a caller gets whose Result type
\* is the one the published resolver was built with.
C2_SameOutcomeSameType ==
    \A p \in Procs :
       (ResolveDone(p) /\ hist.resetsOn[procs[p].loader] = 0) =>
          /\ C2_OnePublished(p)
          /\ (/\ Published(p).resolver.kind = "fn"
              /\ Published(p).resolver.rtype = procs[p].rtype) =>
                /\ procs[p].ret.err = NoErr
                /\ procs[p].ret.val = FnValue(Published(p).resolver.id, procs[p].model)

C2_Witness ==
    \E p, q \in Procs :
       /\ ResolveDone(p) /\ ResolveDone(q)
       /\ procs[p].pm = procs[q].pm
       /\ procs[p].model # procs[q].model
       /\ procs[p].rtype = procs[q].rtype
       /\ procs[p].how = "built" /\ procs[q].how \in {"waited", "hit"}
       /\ hist.resetsOn[procs[p].loader] = 0
       /\ Published(p).resolver.kind = "fn"
       /\ procs[q].ret.val = FnValue(procs[p].cid, procs[q].model)

\* C3: the batch a Resolve of model m hands to Build is the model list of
\* m's state, which holds m.
C3_WholeBatch ==
    \A p \in Procs :
       (procs[p].pc = "build" /\ procs[p].kind = "Resolve") =>
          /\ procs[p].batch = states[handle[procs[p].model]].models
          /\ \E i \in 1..Len(procs[p].batch) : procs[p].batch[i] = procs[p].model

C3_Witness ==
    \E p \in Procs :
       /\ procs[p].pc = "build" /\ procs[p].kind = "Resolve"
       /\ Len(procs[p].batch) = 2
       /\ Len(states) = 2
       /\ procs[p].batch[2] = procs[p].model

\* ================================================ claims on Many and One
RelationDone(p) ==
    procs[p].pc = "done" /\ procs[p].kind # "Resolve" /\ procs[p].loader # NoState

\* C4: the Many and One calls for key k by the parents of state s call Fetch
\* at most once, and exactly once as soon as one of them has returned.
C4_FetchOnce ==
    \A s \in 1..Len(states), k \in Keys :
       /\ hist.fetches[s][k] <= 1
       /\ (\E p \in CallsOn(s, k) : RelationDone(p)) => hist.fetches[s][k] = 1

C4_Witness ==
    \E p, q \in Procs :
       /\ RelationDone(p) /\ RelationDone(q)
       /\ procs[p].loader = procs[q].loader /\ procs[p].key = procs[q].key
       /\ procs[p].model # procs[q].model
       /\ procs[p].how = "built" /\ procs[q].how = "hit"
       /\ hist.fetches[procs[p].loader][procs[p].key] = 1

\* the children of rels whose RelationKey is parent m's ModelKey, in order
Matching(k, m, rels) ==
    LET mine(c) == RelationKey(k, c) = ModelKey(k, m).key
    IN  SelectSeq(rels, mine)

\* C5: Many(p) returns the children Fetch returned whose RelationKey is p's
\* ModelKey, in Fetch's order, and no error; none matching gives empty.
C5_ManyGroups ==
    \A p \in Procs :
       (RelationDone(p) /\ procs[p].kind = "Many" /\ Published(p).err = NoErr) =>
          /\ procs[p].ret.err = NoErr
          /\ procs[p].ret.val =
                Matching(procs[p].key, procs[p].model,
                         hist.fetched[procs[p].loader][procs[p].key])

C5_Witness ==
    \E p \in Procs :
       /\ RelationDone(p) /\ procs[p].kind = "Many"
       /\ hist.fetched[procs[p].loader][procs[p].key] = <<3, 2>>
       /\ procs[p].ret.val = <<3, 2>>
       /\ procs[p].ret.err = NoErr

\* C6: the keys a Many build passes to Fetch are, as a set, the present
\* ModelKeys of the parent's batch, with no duplicate.
C6_FetchKeys ==
    \A p \in Procs :
       (procs[p].pc = "build" /\ procs[p].kind # "Resolve") =>
          LET batch == states[procs[p].loader].models IN
          /\ IsInjective(procs[p].keys)
          /\ {procs[p].keys[i] : i \in 1..Len(procs[p].keys)}
                = {ModelKey(procs[p].key, batch[i]).key :
                     i \in {j \in 1..Len(batch) : ModelKey(procs[p].key, batch[j]).ok}}

C6_Witness ==
    \E p \in Procs :
       /\ procs[p].pc = "build" /\ procs[p].kind = "Many"
       /\ procs[p].key = "boss"
       /\ states[procs[p].loader].models = <<2, 3>>
       /\ procs[p].keys = <<1>>

\* C7: One returns the first element of what Many returns for the same
\* arguments, the zero value and no error if that is empty, and Many's error
\* with the zero value if Many fails.
C7_OneIsFirstOfMany ==
    \A p, q \in Procs :
       (/\ procs[p].pc = "done" /\ procs[p].kind = "One"
        /\ procs[q].pc = "done" /\ procs[q].kind = "Many"
        /\ procs[p].model = procs[q].model /\ procs[p].key = procs[q].key
        /\ procs[p].loader = procs[q].loader /\ procs[p].pm = procs[q].pm) =>
          /\ procs[p].ret.err = procs[q].ret.err
          /\ procs[p].ret.one =
                IF procs[q].ret.err = NoErr /\ Len(procs[q].ret.val) > 0
                THEN procs[q].ret.val[1] ELSE Nil

C7_Witness ==
    \E p, q \in Procs :
       /\ procs[p].pc = "done" /\ procs[p].kind = "One"
       /\ procs[q].pc = "done" /\ procs[q].kind = "Many"
       /\ procs[p].model = procs[q].model /\ procs[p].key = procs[q].key
       /\ procs[p].pm = procs[q].pm /\ procs[p].pm # NoEntry
       /\ Len(procs[q].ret.val) = 2
       /\ procs[p].ret.one = procs[q].ret.val[1]

\* ============================================== more claims on the binder
\* the positions of the latest input that hold a model
LastModelAt == {i \in 1..Len(LastElems) : LastElems[i] \in Models}

\* the latest input is a sequence, or a single non-nil reference, in which a
\* model was unbound or two models referenced different states
C11_Pre ==
    /\ lastInit.n > 0
    /\ LastIsSeq \/ lastInit.input.shape = "single"
    /\ \/ \E i \in LastModelAt : lastInit.before[LastElems[i]] = NoState
       \/ \E i, j \in LastModelAt :
             lastInit.before[LastElems[i]] # lastInit.before[LastElems[j]]

RECURSIVE ModelsFrom(_, _)
ModelsFrom(i, n) ==
    IF i > n THEN <<>> ELSE states[i].models \o ModelsFrom(i + 1, n)

\* C12: a sequence-shaped input that needs binding is bound, and the model
\* lists of the states made for it are, end to end, the references to the
\* input's own elements (for values: to their storage slots) in input order.
C12_BindsOwnElements ==
    (C11_Pre /\ LastIsSeq) =>
       /\ lastInit.made > 0
       /\ ModelsFrom(lastInit.base + 1, lastInit.base + lastInit.made) = LastElems
       /\ \A i \in LastModelAt :
             /\ handle[LastElems[i]] > lastInit.base
             /\ \E j \in 1..Len(states[handle[LastElems[i]]].models) :
                   states[handle[LastElems[i]]].models[j] = LastElems[i]

C12_Witness ==
    /\ C11_Pre
    /\ lastInit.input.shape = "vals"
    /\ Len(LastElems) = 2
    /\ lastInit.made = 1
    /\ states[Len(states)].models = LastElems
    /\ handle[LastElems[1]] = Len(states)

\* the latest input is a single reference to a model that was unbound
C13_Pre ==
    /\ lastInit.n > 0
    /\ lastInit.input.shape = "single"
    /\ LastElems[1] \in Models
    /\ lastInit.before[LastElems[1]] = NoState

\* C13: a single non-nil reference to a model is bound to a new state whose
\* model list is that one reference, so its Handle is set for Resolve.
C13_SingleBound ==
    C13_Pre =>
       /\ lastInit.made = 1
       /\ handle[LastElems[1]] = lastInit.base + 1
       /\ handle[LastElems[1]] # NoState
       /\ states[lastInit.base + 1].models = <<LastElems[1]>>
       /\ \A m \in Models \ {LastElems[1]} : handle[m] = lastInit.before[m]

C13_Witness ==
    /\ C13_Pre
    /\ lastInit.base = 2
    /\ handle[LastElems[1]] = 3
    /\ states[3].models = <<LastElems[1]>>

\* C14: a reference to a reference to an unbound model is dereferenced and
\* the model bound as a singleton batch; a nil at any level changes nothing.
C14_PtrPtrBound ==
    (lastInit.n > 0 /\ lastInit.input.shape = "ptrptr") =>
       IF LastElems[1] \in Models /\ lastInit.before[LastElems[1]] = NoState
       THEN /\ handle[LastElems[1]] # NoState
            /\ states[handle[LastElems[1]]].models = <<LastElems[1]>>
       ELSE handle = lastInit.before /\ lastInit.made = 0

\* the latest input is empty, nil or of an unsupported shape
C15_Pre ==
    /\ lastInit.n > 0
    /\ \/ lastInit.input.shape \in {"other", "nonModels"}
       \/ Len(LastElems) = 0
       \/ lastInit.input.shape \in {"single", "ptrptr"} /\ LastElems[1] = Nil

\* C15: an empty, nil or unsupported-shape input allocates no state and
\* changes no Handle.
C15_InvalidNoOp ==
    C15_Pre => (handle = lastInit.before /\ lastInit.made = 0 /\ Len(states) = lastInit.base)

C15_Witness ==
    /\ C15_Pre
    /\ lastInit.input.shape = "nonModels"
    /\ Len(LastElems) = 1
    /\ lastInit.base = 1
    /\ Len(states) = 1
    /\ \E m \in Models : handle[m] = 1

\* ========================================= claims on the entry checks
\* this step enters a call, which goroutine p makes
Entered(p) ==
    /\ hist'.calls = hist.calls + 1
    /\ procs'[p].cid = hist'.calls

\* this step allocates no entry, changes no state's entries and runs no
\* Build or Fetch
NothingBuilt ==
    /\ states' = states
    /\ entries' = entries
    /\ hist'.builds = hist.builds
    /\ hist'.fetches = hist.fetches

\* C16: Resolve with a nil model returns at once the zero Result and no
\* error, runs no Build and creates no cache entry.
C16_NilResolve ==
    [][\A p \in Procs :
          (Entered(p) /\ procs'[p].kind = "Resolve" /\ procs'[p].model = Nil) =>
             /\ procs'[p].pc = "done"
             /\ procs'[p].ret = NoRet
             /\ NothingBuilt]_vars

C16_Witness ==
    \E p \in Procs :
       /\ procs[p].pc = "done" /\ procs[p].kind = "Resolve"
       /\ procs[p].model = Nil
       /\ procs[p].cid = hist.calls
       /\ procs[p].ret = NoRet
       /\ Len(states) > 0
       /\ Len(entries) = 0

\* C17: Resolve on a non-nil model that is not bound, and Many or One on such
\* a model whose ModelKey is present, return errNoLoader and the zero result,
\* and run no Build or Fetch.
C17_NotInitialized ==
    [][\A p \in Procs :
          (/\ Entered(p)
           /\ procs'[p].model # Nil
           /\ handle[procs'[p].model] = NoState
           /\ \/ procs'[p].kind = "Resolve"
              \/ ModelKey(procs'[p].key, procs'[p].model).ok) =>
             /\ procs'[p].pc = "done"
             /\ procs'[p].ret = [val |-> <<>>, one |-> Nil, err |-> errNoLoader]
             /\ NothingBuilt]_vars

C17_Witness ==
    \E p \in Procs :
       /\ procs[p].pc = "done" /\ procs[p].kind = "Resolve"
       /\ procs[p].model # Nil
       /\ handle[procs[p].model] = NoState
       /\ procs[p].cid = hist.calls
       /\ procs[p].ret.err = errNoLoader
       /\ Len(states) > 0

\* C18: Many and One with a nil parent, or a parent whose ModelKey is not
\* present, return the empty (zero) result and no error, call no Fetch and
\* create no cache entry, whether the parent is bound or not.
C18_AbsentParent ==
    [][\A p \in Procs :
          (/\ Entered(p)
           /\ procs'[p].kind # "Resolve"
           /\ \/ procs'[p].model = Nil
              \/ ~ModelKey(procs'[p].key, procs'[p].model).ok) =>
             /\ procs'[p].pc = "done"
             /\ procs'[p].ret = NoRet
             /\ NothingBuilt]_vars

C18_Witness ==
    \E p, q \in Procs :
       /\ procs[p].pc = "done" /\ procs[p].kind = "Many"
       /\ procs[p].model # Nil
       /\ ~ModelKey(procs[p].key, procs[p].model).ok
       /\ handle[procs[p].model] = NoState
       /\ procs[p].ret = NoRet
       /\ procs[q].pc = "done" /\ procs[q].kind = "One"
       /\ procs[q].model = Nil
       /\ procs[q].ret = NoRet
       /\ Len(states) > 0
       /\ Len(entries) = 0

\* ======================================= claims on the published outcome
\* q ran the Build of the entry that p, a caller with another Result type,
\* was served from
C19_Pre(p, q) ==
    /\ ResolveDone(p) /\ ResolveDone(q)
    /\ procs[p].pm = procs[q].pm
    /\ procs[q].how = "built" /\ procs[p].how # "built"
    /\ procs[p].rtype # procs[q].rtype

\* C19 as stated: a Resolve for a key used before on the state with an
\* incompatible Result type returns the TypeMismatch error and no value.
C19_Mismatch ==
    \A p, q \in Procs :
       C19_Pre(p, q) =>
          procs[p].ret = [val |-> <<>>, one |-> Nil, err |-> errTypeMismatch]

\* a published holder is never replaced
C19_HolderKept ==
    \A e \in 1..Len(entries) :
       entries[e].ready.stored => entries'[e].ready = entries[e].ready

\* C19 amended: such a Resolve returns no value and did not run Build; its
\* error is TypeMismatch if the earlier Build published no error, else that
\* published error; and the published holder stays as it is.
C19_MismatchOrPublishedError ==
    /\ [](\A p, q \in Procs :
            C19_Pre(p, q) =>
               /\ procs[p].ret.val = <<>>
               /\ procs[p].ret.err =
                     IF Published(q).err # NoErr THEN Published(q).err
                     ELSE errTypeMismatch
               /\ Published(q).resolver.id # procs[p].cid)
    /\ [][C19_HolderKept]_vars

C19_Witness ==
    \E p, q \in Procs :
       /\ C19_Pre(p, q)
       /\ Published(q).resolver.kind = "fn"
       /\ procs[q].ret.err = NoErr
       /\ procs[p].ret.err = errTypeMismatch
       /\ procs[p].how = "hit"

\* a call served from an entry whose Build returned an error gets that error;
\* only the call that ran that Build ran one; with no Reset it is the only
\* Build of (state, key)
C20_ErrorCached ==
    \A p \in Procs :
       (ResolveDone(p) /\ Published(p).err # NoErr) =>
          /\ procs[p].ret = [val |-> <<>>, one |-> Nil, err |-> Published(p).err]
          /\ procs[p].how = "built" <=> Published(p).err = BuildErr(procs[p].cid)
          /\ hist.resetsOn[procs[p].loader] = 0 =>
                hist.builds[procs[p].loader][procs[p].key] = 1

\* calls of one (state, key) served from different entries: a Reset came
\* between them and Build ran for each
C20_RebuiltAfterReset ==
    \A p, q \in Procs :
       (/\ ResolveDone(p) /\ ResolveDone(q)
        /\ procs[p].loader = procs[q].loader /\ procs[p].key = procs[q].key
        /\ procs[p].pm # procs[q].pm) =>
          /\ hist.resetsOn[procs[p].loader] >= 1
          /\ hist.builds[procs[p].loader][procs[p].key] >= 2

\* a Resolve that enters when the state holds no entry for its key (as after
\* a Reset) gets a new entry, whose Once has not run
C20_FreshEntry ==
    \A p \in Procs :
       (/\ Entered(p) /\ procs'[p].pc = "check"
        /\ states[procs'[p].loader].resolverEntries[procs'[p].key] = NoEntry) =>
          /\ procs'[p].pm = Len(entries) + 1
          /\ entries'[procs'[p].pm] = newEntry

\* a Reset step leaves the state it changes with no entry for any key
C20_ResetClears ==
    hist'.resets # hist.resets =>
       \A s \in 1..Len(states) :
          states'[s] # states[s] =>
             /\ states'[s].resolverEntries = NoEntries
             /\ hist'.resetsOn[s] = hist.resetsOn[s] + 1

\* C20: a published Build error is what every Resolve of the key on the state
\* returns, with no further Build, until a Reset; a Resolve after the Reset
\* runs Build again.
C20_ErrorUntilReset ==
    /\ [](C20_ErrorCached /\ C20_RebuiltAfterReset)
    /\ [][C20_FreshEntry /\ C20_ResetClears]_vars

C20_Witness ==
    \E p, q \in Procs :
       /\ ResolveDone(p) /\ ResolveDone(q)
       /\ procs[p].loader = procs[q].loader /\ procs[p].key = procs[q].key
       /\ procs[p].pm # procs[q].pm
       /\ procs[q].how = "built" /\ procs[q].ret.err = BuildErr(procs[q].cid)
       /\ procs[p].how = "built" /\ procs[p].ret.err = NoErr
       /\ hist.resetsOn[procs[p].loader] = 1
       /\ hist.builds[procs[p].loader][procs[p].key] = 2

\* ======================================== claims on Fetch's error and Reset
\* the entries whose published resolver is a grouping of fetched children
GroupedEntries ==
    {e \in 1..Len(entries) :
        entries[e].ready.stored /\ entries[e].ready.resolver.kind = "grouped"}

\* C21: when Fetch fails, Many and One return that error with the empty or
\* zero result, Fetch is not retried, and nothing is bound or grouped:
\* InitHandles ran only for the program's own calls and for the successful
\* fetches.
C21_FetchErrorPassedOn ==
    /\ \A p \in Procs :
          (RelationDone(p) /\ Published(p).err # NoErr) =>
             /\ procs[p].ret = [val |-> <<>>, one |-> Nil, err |-> Published(p).err]
             /\ \E c \in 1..hist.calls : Published(p).err = FetchErr(c)
             /\ Published(p).resolver = NilFn("rels")
             /\ hist.fetches[procs[p].loader][procs[p].key] = 1
             /\ hist.fetched[procs[p].loader][procs[p].key] = <<>>
    /\ lastInit.n = hist.binds + Cardinality(GroupedEntries)

C21_Witness ==
    \E p, q \in Procs :
       /\ RelationDone(p) /\ RelationDone(q)
       /\ procs[p].pm = procs[q].pm
       /\ procs[p].kind = "Many" /\ procs[p].how = "built"
       /\ procs[p].ret.err = FetchErr(procs[p].cid)
       /\ procs[q].kind = "One" /\ procs[q].how = "hit"
       /\ procs[q].ret = [val |-> <<>>, one |-> Nil, err |-> FetchErr(procs[p].cid)]
       /\ hist.fetches[procs[p].loader][procs[p].key] = 1
       /\ lastInit.n = 1

C23_ResetFrame ==
    [][hist'.resets # hist.resets =>
         /\ handle' = handle
         /\ Len(states') = Len(states)
         /\ \A s \in 1..Len(states) :
               /\ states'[s].models = states[s].models
               /\ states'[s].engine = states[s].engine
         /\ \E m \in Models :
               \A s \in 1..Len(states) :
                  states'[s].resolverEntries =
                     IF s = handle[m] THEN NoEntries ELSE states[s].resolverEntries
         /\ entries' = entries
         /\ procs' = procs
         /\ config' = config
         /\ lastInit' = lastInit]_vars

\* one InitHandles call made two partitions, a key was built in each, and the
\* Reset of one has emptied its cache while the other still holds its entry
C23_Witness ==
    \E p, q \in Procs :
       /\ ResolveDone(p) /\ ResolveDone(q)
       /\ procs[p].loader # procs[q].loader
       /\ lastInit.made = 2
       /\ procs[p].how = "built" /\ procs[q].how = "built"
       /\ hist.resetsOn[procs[p].loader] = 1 /\ procs[p].gen = 0
       /\ states[procs[p].loader].resolverEntries = NoEntries
       /\ Len(states[procs[p].loader].models) = 2
       /\ handle[procs[p].model] = procs[p].loader
       /\ states[procs[q].loader].resolverEntries[procs[q].key] = procs[q].pm

\* C24: a Reset on a Handle that was never bound does nothing: the Handle
\* stays unbound, no state is allocated, and nothing else changes.
C24_ResetUnboundNoOp ==
    [][(hist'.resets # hist.resets /\ hist'.resetsOn = hist.resetsOn) =>
         /\ \E m \in Models : handle[m] = NoState /\ handle'[m] = NoState
         /\ handle' = handle
         /\ states' = states
         /\ entries' = entries
         /\ procs' = procs]_vars

\* Reset was called on an unbound model while other models were bound and a
\* key was cached: the unbound model stays unbound and the cache is kept
C24_Witness ==
    /\ hist.resets = 1
    /\ \A s \in 1..Len(states) : hist.resetsOn[s] = 0
    /\ \E m \in Models : handle[m] = NoState
    /\ \E p \in Procs :
          /\ ResolveDone(p)
          /\ states[procs[p].loader].resolverEntries[procs[p].key] = procs[p].pm

\* C25: a Resolve caller that waited for another caller's Build has returned
\* only after that Build's outcome was published, cancelled or not, and what
\* it returned is that outcome applied to its own model; the outcome was built
\* by the other call, never by its own Build.
C25_WaiterGetsOutcome ==
    \A p \in Procs :
       (ResolveDone(p) /\ procs[p].how = "waited") =>
          /\ Published(p).stored
          /\ entries[procs[p].pm].once = "done"
          /\ procs[p].ret = callReturn("Resolve",
                               applyResolver(Published(p), procs[p].rtype,
                                             procs[p].key, procs[p].model))
          /\ Published(p).resolver.id # procs[p].cid
          /\ Published(p).err.id # procs[p].cid
          /\ procs[p].ret.err # errNotStored

\* a caller whose context was cancelled while it waited got the value the
\* other caller's Build made, for its own model
C25_Witness ==
    \E p, q \in Procs :
       /\ ResolveDone(p) /\ ResolveDone(q)
       /\ procs[p].pm = procs[q].pm
       /\ procs[q].how = "built" /\ procs[p].how = "waited"
       /\ procs[p].cancelled
       /\ procs[p].model # procs[q].model
       /\ Published(p).resolver.kind = "fn"
       /\ Published(p).resolver.id = procs[q].cid
       /\ procs[p].ret.err = NoErr
       /\ procs[p].ret.val = FnValue(procs[q].cid, procs[p].model)

\* C26: while a Build is in flight on one entry, a Resolve caller on another
\* entry (another key of the state, or any key of another state) is never
\* held up by it: it can enter its own Build, have it return, leave the Once
\* and return.
C26_UnrelatedNotBlocked ==
    \A p, q \in Procs :
       (/\ procs[p].pc = "build" /\ procs[p].kind = "Resolve"
        /\ procs[q].kind = "Resolve"
        /\ procs[q].pc \in {"once", "build", "stored"}
        /\ procs[q].pm # procs[p].pm) =>
          /\ (procs[q].pc = "once" /\ entries[procs[q].pm].once = "new") =>
                ENABLED OnceDo(q)
          /\ procs[q].pc = "build" =>
                \A out \in BuildOutcomes : ENABLED BuildReturn(q, out)
          /\ procs[q].pc = "stored" => ENABLED OnceExit(q)

\* the second caller built another key of the same state and returned while
\* the first caller's Build was still running
C26_Witness ==
    \E p, q \in Procs :
       /\ procs[p].pc = "build" /\ procs[p].kind = "Resolve"
       /\ ResolveDone(q) /\ procs[q].how = "built"
       /\ procs[q].loader = procs[p].loader
       /\ procs[q].key # procs[p].key
       /\ procs[q].cid > procs[p].cid
       /\ entries[procs[p].pm].once = "running"
       /\ ~entries[procs[p].pm].ready.stored
       /\ procs[q].ret.err = NoErr

\* C27: whatever Build returned, no Resolve, Many or One call panics, and a
\* caller served from an entry published with neither a function nor an error
\* gets the "resolver not stored" internal error.
C27_NeverPanics ==
    \A p \in Procs :
       /\ procs[p].pc # "panicked"
       /\ (/\ procs[p].pc = "done" /\ procs[p].loader # NoState
           /\ Published(p).stored
           /\ Published(p).resolver.kind = "nil"
           /\ Published(p).err = NoErr) =>
             procs[p].ret = [val |-> <<>>, one |-> Nil, err |-> errNotStored]

\* ============================================ claims on the fetched children
\* the Many and One calls whose Fetch succeeded, and the latest of them
Fetchers ==
    {p \in Procs : /\ procs[p].kind # "Resolve"
                   /\ procs[p].pm # NoEntry
                   /\ Published(p).stored
                   /\ Published(p).resolver.kind = "grouped"
                   /\ Published(p).resolver.id = procs[p].cid}

LastFetcher(p) ==
    p \in Fetchers /\ \A q \in Fetchers : procs[q].cid <= procs[p].cid

\* C28: after a Many build, the fetched children are bound by the engine of
\* the parent's state: if one of them was unbound, each is bound to a state of
\* that engine holding its chunk of the Fetch result, cut by that engine's
\* batch size in Fetch order; and a Many on children runs Fetch on the whole
\* model list of the child's state, at most once per state and key.
C28_ChildrenBoundByParentEngine ==
    /\ \A p \in Procs :
          LastFetcher(p) =>
             LET rels == hist.fetched[procs[p].loader][procs[p].key]
                 e    == states[procs[p].loader].engine
                 B    == config[e].batchSize
                 M    == Len(rels)
             IN  /\ lastInit.input.elems = rels
                 /\ lastInit.engine = e
                 /\ (\E i \in 1..M : lastInit.before[rels[i]] = NoState) =>
                       /\ lastInit.made = (M + B - 1) \div B
                       /\ \A i \in 1..M :
                             LET st == states[handle[rels[i]]] IN
                             /\ handle[rels[i]] = lastInit.base + ChunkOf(i, B) + 1
                             /\ st.engine = e
                             /\ st.models = SubSeq(rels, ChunkOf(i, B) * B + 1,
                                                   Min((ChunkOf(i, B) + 1) * B, M))
    /\ \A q \in Procs :
          (procs[q].pc = "build" /\ procs[q].kind # "Resolve") =>
             /\ procs[q].batch = states[procs[q].loader].models
             /\ hist.fetches[procs[q].loader][procs[q].key] = 1

\* parents bound by the engine with the default batch size while the other
\* engine cuts batches of one; a Many fetched two children, one of them
\* unbound, which now share one state of the parents' engine, and the Many on
\* one of them is in its Fetch with both children as the batch
C28_Witness ==
    \E p, q \in Procs :
       /\ RelationDone(p) /\ procs[p].kind = "Many" /\ procs[p].how = "built"
       /\ states[procs[p].loader].engine = 2
       /\ config[1].batchSize = 1
       /\ Len(procs[p].ret.val) >= 1
       /\ procs[q].pc = "build" /\ procs[q].kind = "Many"
       /\ procs[q].batch = hist.fetched[procs[p].loader][procs[p].key]
       /\ Len(procs[q].batch) = 2
       /\ procs[q].loader # procs[p].loader
       /\ states[procs[q].loader].engine = 2
       /\ procs[q].model \in {procs[p].ret.val[i] : i \in 1..Len(procs[p].ret.val)}
       /\ \E i \in 1..2 : lastInit.before[procs[q].batch[i]] = NoState

\* ================================================ claims on the key mapping
\* the cache keys present in the mapping of state s
KeysOf(sts, s) == {k \in Keys : sts[s].resolverEntries[k] # NoEntry}

\* C29: a step that is not a Reset on state s keeps every key of s's mapping,
\* with the entry it had; a Reset on s removes all of them.
C29_KeysOnlyGrow ==
    [][\A s \in 1..Len(states) :
          IF hist'.resetsOn[s] = hist.resetsOn[s]
          THEN /\ KeysOf(states, s) \subseteq KeysOf(states', s)
               /\ \A k \in KeysOf(states, s) :
                     states'[s].resolverEntries[k] = states[s].resolverEntries[k]
          ELSE KeysOf(states', s) = {}]_vars

\* two calls put two keys into one state's mapping, both still there after a
\* Reset on another state
C29_Witness ==
    \E p, q \in Procs :
       /\ ResolveDone(p) /\ ResolveDone(q)
       /\ procs[p].loader = procs[q].loader
       /\ procs[p].key # procs[q].key
       /\ KeysOf(states, procs[p].loader) = Keys
       /\ states[procs[p].loader].resolverEntries[procs[p].key] = procs[p].pm
       /\ states[procs[p].loader].resolverEntries[procs[q].key] = procs[q].pm
       /\ hist.resets = 1
       /\ hist.resetsOn[procs[p].loader] = 0
       /\ \E s \in 1..Len(states) : hist.resetsOn[s] = 1

\* =============================================== claims on the batch size
\* C30: whatever batch size was configured, every InitHandles call returns
\* (batchRanges ends, with finitely many ranges, and nothing panics).
C30_InitHandlesReturns ==
    lastInit.n > 0 => lastInit.end = "returns"

\* ========================================= claims on the decision to bind
\* C31: InitHandles allocates states and changes Handles exactly when its
\* sequence holds a model with no state or two models of different states:
\* then every model of it is moved to a newly allocated state; otherwise, the
\* models all being on one state, nothing is allocated and no Handle changes,
\* also for a part or a reordering of that state's model list.
C31_BindsIffUnboundOrMixed ==
    lastInit.n > 0 =>
       IF C11_Pre
       THEN /\ lastInit.made > 0
            /\ Len(states) = lastInit.base + lastInit.made
            /\ \A i \in LastModelAt :
                  /\ handle[LastElems[i]] > lastInit.base
                  /\ handle[LastElems[i]] # lastInit.before[LastElems[i]]
            /\ \A m \in Models :
                  (\A i \in LastModelAt : LastElems[i] # m) =>
                     handle[m] = lastInit.before[m]
       ELSE /\ handle = lastInit.before
            /\ lastInit.made = 0
            /\ Len(states) = lastInit.base

\* three models were bound to one state; the next input is a reordered part
\* of that state's model list, and nothing changed
C31_Witness ==
    /\ lastInit.n = 2
    /\ lastInit.input = [shape |-> "ptrs", elems |-> <<3, 1>>]
    /\ Len(states) = 1
    /\ states[1].models = <<1, 2, 3>>
    /\ handle = <<1, 1, 1>>
    /\ lastInit.made = 0
    /\ lastInit.before = handle

\* ============================================ claims on the builder entry
\* the callers inside the Once's function of entry e
Runners(e) ==
    {p \in Procs : procs[p].pm = e /\ procs[p].pc \in {"build", "stored"}}

\* a step publishes the outcome of entry e: the one caller running its Build
\* stores it, into an entry that held none
PublishedBy(e) ==
    /\ ~entries[e].ready.stored
    /\ entries'[e].ready.stored
    /\ \E p \in Procs :
          /\ Runners(e) = {p}
          /\ procs[p].pc = "build"
          /\ procs'[p].pc = "stored"

\* C32: an entry's outcome is published at most once, by the one caller that
\* runs the entry's Build; a published outcome never changes and never goes
\* back to unbuilt, whatever Resolve and Reset steps follow.
C32_PublishedOnce ==
    /\ [](\A e \in 1..Len(entries) :
            /\ Cardinality(Runners(e)) <= 1
            /\ entries[e].ready.stored => entries[e].once # "new")
    /\ [][\A e \in 1..Len(entries) :
            /\ entries[e].ready.stored => entries'[e].ready = entries[e].ready
            /\ entries'[e].ready # entries[e].ready => PublishedBy(e)]_vars

\* an outcome built by one caller and read by a waiter is still in its entry
\* after a Reset took the entry out of the state's mapping
C32_Witness ==
    \E p, q \in Procs :
       /\ ResolveDone(p) /\ ResolveDone(q)
       /\ procs[p].pm = procs[q].pm
       /\ procs[p].how = "built" /\ procs[q].how = "waited"
       /\ hist.resetsOn[procs[p].loader] = 1
       /\ states[procs[p].loader].resolverEntries[procs[p].key] = NoEntry
       /\ Published(p).stored
       /\ Published(p).resolver = FnResolver(procs[p].rtype, procs[p].cid)

\* the callers whose Build for key k on state s is in progress
Building(s, k) ==
    {p \in Procs : /\ procs[p].pc = "build"
                   /\ procs[p].loader = s /\ procs[p].key = k}

\* C33 as stated: never are two Builds for one (state, key) in progress at
\* the same time, whatever Resolve and Reset calls interleave.
C33_NoTwoBuilds ==
    \A s \in 1..Len(states), k \in Keys : Cardinality(Building(s, k)) <= 1

\* C33 amended: never are two Builds of one entry in progress at the same
\* time; two Builds for one (state, key) overlap only if a Reset on the state
\* came between the two callers' entries, so at most one more than the state
\* was reset.
C33_NoTwoBuildsPerEntry ==
    \A s \in 1..Len(states), k \in Keys :
       /\ Cardinality(Building(s, k)) <= hist.resetsOn[s] + 1
       /\ \A p, q \in Building(s, k) :
             p # q => /\ procs[p].pm # procs[q].pm
                      /\ procs[p].gen # procs[q].gen

\* with no Reset, one caller's Build is in progress and the other caller of
\* the same state and key is held at the entry's Once
C33_Witness ==
    \E p, q \in Procs :
       /\ procs[p].pc = "build" /\ procs[q].pc = "once"
       /\ procs[p].pm = procs[q].pm
       /\ procs[p].model # procs[q].model
       /\ hist.resets = 0
       /\ ~ENABLED OnceDo(q)
       /\ ~ENABLED OnceWait(q)

\* C34: the Builds started for key k on state s never number more than the
\* Resets called on s so far, plus one.
C34_BuildsBoundedByResets ==
    \A s \in 1..Len(states), k \in Keys :
       hist.builds[s][k] <= hist.resetsOn[s] + 1

\* one Reset on the state and two Builds of the key started, both running
C34_Witness ==
    \E s \in 1..Len(states), k \in Keys :
       /\ hist.resetsOn[s] = 1
       /\ hist.builds[s][k] = 2
       /\ Cardinality(Building(s, k)) = 2
       /\ Len(states[s].models) >= 2

\* ============================================== claims on the model lists
\* the references held in the model list of state s
ListOf(s) == {states[s].models[i] : i \in 1..Len(states[s].models)}

\* C35: every model whose Handle references a state is in that state's model
\* list, after any InitHandles calls; and the model a Build runs for is in the
\* batch the Build is given.
C35_BoundModelInList ==
    /\ \A m \in Models : handle[m] # NoState => m \in ListOf(handle[m])
    /\ \A p \in Procs :
          procs[p].pc = "build" =>
             \E i \in 1..Len(procs[p].batch) : procs[p].batch[i] = procs[p].model

\* two models on one state; then one of them and an unbound model are bound
\* by an input that repeats a reference: each is in the list of its new
\* state, and the model left behind is still in the list of the old one
C35_Witness ==
    /\ lastInit.n = 2
    /\ lastInit.input = [shape |-> "ptrs", elems |-> <<2, 2, 1>>]
    /\ lastInit.base = 1
    /\ Len(states) = 3
    /\ states[1].models = <<2, 3>>
    /\ states[2].models = <<2, 2>>
    /\ states[3].models = <<1>>
    /\ handle = <<3, 2, 1>>

\* C36: a Many or One call leaves the Handle of every model of the parent's
\* batch, the requesting parent included, on the parent's state, whatever
\* children Fetch returned; and two calls for one key by one parent are served
\* from one entry.
C36_ParentsKeepState ==
    \A p \in Procs :
       (procs[p].kind # "Resolve" /\ procs[p].loader # NoState) =>
          /\ \A i \in 1..Len(states[procs[p].loader].models) :
                handle[states[procs[p].loader].models[i]] = procs[p].loader
          /\ \A q \in Procs :
                (/\ procs[q].kind # "Resolve" /\ procs[q].loader # NoState
                 /\ procs[q].model = procs[p].model
                 /\ procs[q].key = procs[p].key) => procs[q].pm = procs[p].pm

\* C37: no state's model list holds a nil reference, nor does the batch of a
\* running Build or Fetch, even when the sequence bound held nil entries.
C37_NoNilInModelLists ==
    /\ \A s \in 1..Len(states) : Nil \notin ListOf(s)
    /\ \A p \in Procs :
          \A i \in 1..Len(procs[p].batch) : procs[p].batch[i] # Nil

\* a call that was made and has not returned
InCall(p) == procs[p].pc \notin {"idle", "done"}

\* C38: under fair scheduling, with every entered Build and Fetch returning,
\* every Resolve, Many and One call that was made eventually returns.
C38_EveryCallReturns ==
    \A p \in Procs : InCall(p) ~> procs[p].pc = "done"

\* the calls that went through a Builder Entry and were served by it
Served == {p \in Procs : procs[p].how \in {"hit", "built", "waited"}}

\* C39: a step that allocates states leaves every earlier state as it was and
\* gives each new state an empty key mapping; no entry belongs to two states;
\* a Build runs on the model list of the state its caller pointed to, and
\* every call served on a state was served by a Build run for that state,
\* with at most one Build per Reset epoch of the state and key.
C39_RebindStartsEmpty ==
    /\ [](/\ \A s, t \in 1..Len(states) : \A k, l \in Keys :
                (s # t /\ states[s].resolverEntries[k] # NoEntry)
                   => states[s].resolverEntries[k] # states[t].resolverEntries[l]
          /\ \A p \in Procs :
                /\ procs[p].pc \in {"build", "stored"}
                      => procs[p].batch = states[procs[p].loader].models
                /\ p \in Served
                      => /\ hist.builds[procs[p].loader][procs[p].key] >= 1
                         /\ hist.builds[procs[p].loader][procs[p].key]
                               <= hist.resetsOn[procs[p].loader] + 1)
    /\ [][Len(states') > Len(states)
             => /\ \A s \in 1..Len(states) : states'[s] = states[s]
                /\ \A s \in (Len(states) + 1)..Len(states') :
                      states'[s].resolverEntries = NoEntries]_vars

\* a model whose key was built on its first state was rebound by the binding
\* of fetched relations while another model stayed; its next call on the same
\* key has run the Build again, on the new state
C39_Witness ==
    \E p \in Procs, q \in Procs, old \in 1..Len(states) :
        /\ p # q
        /\ procs[q].pc = "done" /\ procs[q].how = "built"
        /\ procs[q].loader = old /\ procs[q].key = procs[p].key
        /\ procs[p].pc = "done" /\ procs[p].how = "built"
        /\ procs[p].cid > procs[q].cid
        /\ procs[p].model # Nil
        /\ lastInit.before[procs[p].model] = old
        /\ procs[p].loader # old
        /\ handle[procs[p].model] = procs[p].loader
        /\ \E m \in Models : handle[m] = old
        /\ hist.builds[old][procs[p].key] = 1
        /\ hist.builds[procs[p].loader][procs[p].key] = 1

=============================================================================
